---- MODULE Spec2Model ----
(***************************************************************************)
(* The data-access layer of src/app/actions.ts: six server actions         *)
(* (getUsers, getPosts, getUserById, createUser, createPost,               *)
(* createComment) over a shared store, a read-through query cache with     *)
(* tags, and a page-regeneration signal.                                   *)
(*                                                                         *)
(* Every action below is one await of a server action: the awaited call    *)
(* takes effect and the continuation runs up to the next await (or to the  *)
(* return / the catch block).  Strings that the code tests for emptiness   *)
(* are modelled as such; ids are naturals, 0 standing for the empty id.    *)
(***************************************************************************)
EXTENDS Integers, Sequences, FiniteSets, TLC

\* ------------------------------------------------------------- bounds
MaxRows == 3
MaxNew == 2
NumProcs == 2

\* ------------------------------------------------- program constants
CommentTake == 10
DefaultLimit == 5

Procs == 1..NumProcs
Emails == {"", "a@x.com", "b@x.com"}
Titles == {"", "T"}
Contents == {"", "hi"}
UserIds == {0, 1, 2}
PostIds == {0, 1}
Limits == {1, DefaultLimit}

VARIABLES
    users,      \* the User table: set of rows
    posts,      \* the Post table
    comments,   \* the Comment table
    cache,      \* the query cache: key -> entry
    reval,      \* the background revalidation of a stale entry, if one runs
    paths,      \* paths marked for regeneration by revalidatePath
    pc,         \* per caller: where its server action stands
    call,       \* per caller: the action called and its arguments
    loc,        \* per caller: the action's local variables
    ret,        \* per caller: what the action returned or threw
    acked,      \* history: ids of comments whose createComment returned
    raced,      \* history: acked comments after whose invalidation a result
                \* that lacks them was put in the cache
    lastAck,    \* history: the comment of the last createComment that returned,
                \* while no create action has been called since (else 0)
    run         \* the run: how many rows the store may grow to, whether its
                \* callers call one at a time, the limits and ids they pass,
                \* and which of them call the create actions

vars == <<users, posts, comments, cache, reval, paths, pc, call, loc, ret,
          acked, raced, lastAck, run>>
store == <<users, posts, comments>>

\* ------------------------------------------------------------- errors
Err(msg) == [message |-> msg, code |-> ""]
StoreDown == [message |-> "Can't reach database server", code |-> "P1001"]
UniqueViolation == [message |-> "Unique constraint failed", code |-> "P2002"]
RevalidateFailed == [message |-> "static generation store missing", code |-> ""]
InvalidateFailed == [message |-> "cache invalidation failed", code |-> "P6003"]

Ok(v) == [kind |-> "ok", val |-> v]
Thrown(e) == [kind |-> "error", err |-> e]
None == [kind |-> "none"]
Null == [null |-> TRUE]

\* ------------------------------------------------------------ helpers
Min(a, b) == IF a < b THEN a ELSE b

\* orderBy: { createdAt: "desc" } on a set of rows
RECURSIVE SortDesc(_)
SortDesc(S) ==
    IF S = {} THEN <<>>
    ELSE LET m == CHOOSE x \in S : \A y \in S : y.createdAt <= x.createdAt
         IN  <<m>> \o SortDesc(S \ {m})

\* A take that returns every row
TakeAll(s, n) == s

\* take: n
Take(s, n) == SubSeq(s, 1, Min(n, Len(s)))

Range(s) == {s[i] : i \in 1..Len(s)}

\* findUnique({ where: { id } }) on a table: the row, or Null
FindUnique(table, id) ==
    IF \E r \in table : r.id = id
    THEN CHOOSE r \in table : r.id = id
    ELSE Null

\* ------------------------------------------------------------ queries
\* One row of getUsers: include posts (unordered) and _count
UserListRow(u, P, C) ==
    [id |-> u.id, email |-> u.email, createdAt |-> u.createdAt,
     posts |-> {p \in P : p.authorId = u.id},
     count |-> [comments |-> Cardinality({c \in C : c.authorId = u.id}),
                posts |-> Cardinality({p \in P : p.authorId = u.id})]]

\* prisma.user.findMany of getUsers, on the tables U, P, C
GetUsersQuery(U, P, C) ==
    LET s == SortDesc(U) IN [i \in 1..Len(s) |-> UserListRow(s[i], P, C)]

\* One comment of a post of getPosts: include author
PostCommentRow(c, U) ==
    [id |-> c.id, content |-> c.content, postId |-> c.postId,
     authorId |-> c.authorId, createdAt |-> c.createdAt,
     author |-> FindUnique(U, c.authorId)]

\* One row of getPosts: include author, comments newest-first, _count
PostListRow(p, U, C) ==
    LET s == SortDesc({c \in C : c.postId = p.id}) IN
    [id |-> p.id, title |-> p.title, authorId |-> p.authorId,
     createdAt |-> p.createdAt,
     author |-> FindUnique(U, p.authorId),
     comments |-> [i \in 1..Len(s) |-> PostCommentRow(s[i], U)],
     count |-> [comments |-> Cardinality({c \in C : c.postId = p.id})]]

\* prisma.post.findMany of getPosts
GetPostsQuery(U, P, C, limit) ==
    LET s == Take(SortDesc(P), limit) IN
    [i \in 1..Len(s) |-> PostListRow(s[i], U, C)]

\* prisma.user.findUnique of getUserById
GetUserByIdQuery(U, P, C, id) ==
    LET u == FindUnique(U, id) IN
    IF u = Null THEN Null
    ELSE [id |-> u.id, email |-> u.email, createdAt |-> u.createdAt,
          posts |-> SortDesc({p \in P : p.authorId = id}),
          comments |-> Take(SortDesc({c \in C : c.authorId = id}), CommentTake),
          count |-> [comments |-> Cardinality({c \in C : c.authorId = id}),
                     posts |-> Cardinality({p \in P : p.authorId = id})]]

\* -------------------------------------------------------------- cache
UsersTtl == 60
PostsSwr == 120
UserTtl == 30
UserSwr == 60

\* A cached query: the action and its argument
UsersKey == <<"getUsers", 0>>
PostsKey(limit) == <<"getPosts", limit>>
UserKey(id) == <<"getUserById", id>>
Keys == {UsersKey} \cup {PostsKey(l) : l \in Limits}
            \cup {UserKey(i) : i \in UserIds \ {0}}

\* cacheStrategy.tags of the query
TagsOf(k) ==
    IF k[1] = "getUsers" THEN {<<"users_list", 0>>}
    ELSE IF k[1] = "getPosts" THEN {<<"posts_list", 0>>}
    ELSE {<<"user", k[2]>>}

\* cacheStrategy.ttl / swr of the query (seconds; 0 when not given)
Ttl(k) == IF k[1] = "getUsers" THEN UsersTtl
          ELSE IF k[1] = "getPosts" THEN 0 ELSE UserTtl
Swr(k) == IF k[1] = "getUsers" THEN 0
          ELSE IF k[1] = "getPosts" THEN PostsSwr ELSE UserSwr

NoEntry == [stage |-> "none"]
\* A just-computed result enters the cache fresh when the query has a ttl,
\* and stale-but-servable when it only has a swr window.
NewEntry(k, v) ==
    [stage |-> IF Ttl(k) > 0 THEN "fresh" ELSE "stale", val |-> v]

\* The query behind a key, run on the tables
RunQuery(k, U, P, C) ==
    IF k[1] = "getUsers" THEN GetUsersQuery(U, P, C)
    ELSE IF k[1] = "getPosts" THEN GetPostsQuery(U, P, C, k[2])
    ELSE GetUserByIdQuery(U, P, C, k[2])

\* An invalidation that evicts only the entries carrying every tag
InvalidateAll(c, tags) ==
    [k \in Keys |-> IF tags \subseteq TagsOf(k) THEN NoEntry ELSE c[k]]

\* prisma.$accelerate.invalidate({ tags }): evict every entry with a tag
Invalidate(c, tags) ==
    [k \in Keys |-> IF TagsOf(k) \cap tags # {} THEN NoEntry ELSE c[k]]

\* ------------------------------------------------------------ history
\* The result v of the cached query k was computed before comment c was
\* inserted, and shows it: k lists c's post, or is the view of c's author,
\* and v counts fewer comments than there were once c was in the store
\* (a missing author view is older than the author, hence than c).
Predates(k, v, c) ==
    IF k[1] = "getPosts"
    THEN \E i \in 1..Len(v) :
            /\ v[i].id = c.postId
            /\ v[i].count.comments
                 < Cardinality({d \in comments : d.postId = c.postId /\ d.id <= c.id})
    ELSE IF k = UserKey(c.authorId)
    THEN \/ v = Null
         \/ v.count.comments
              < Cardinality({d \in comments : d.authorId = c.authorId /\ d.id <= c.id})
    ELSE FALSE

\* The acked comments that a result put in the cache now predates
LateFor(k, v) == {c.id : c \in {d \in comments : d.id \in acked /\ Predates(k, v, d)}}

\* ----------------------------------------------------- per-call state
NoCall == [op |-> "none"]
Unset == [unset |-> TRUE]
Locals0 ==
    [postExists |-> Unset, authorExists |-> Unset, \* lookups not yet answered
     val |-> Null,                                 \* a read's query result
     hit |-> FALSE,                                \* served from the cache
     fault |-> Null,                               \* the store error raised
     ins |-> Null,                                 \* the row this call inserted
     ext |-> {},                                   \* external calls made so far
     seen |-> {}]                                  \* comments acked at call time
IdleReval == [st |-> "idle"]

\* Rows that exist when a run starts: user 1, nP posts by user 1 and nC
\* comments by user 1 on post 1, as createUser, createPost and
\* createComment leave them
SeedUsers == {[id |-> 1, email |-> "a@x.com", createdAt |-> 1]}
SeedPosts(nP) ==
    {[id |-> i, title |-> "T", authorId |-> 1, createdAt |-> i] : i \in 1..nP}
SeedComments(nC) ==
    {[id |-> i, content |-> "hi", postId |-> 1, authorId |-> 1, createdAt |-> i] :
        i \in 1..nC}

\* The state after construction, on a store that holds U, P and C and may
\* grow by MaxRows rows
InitOn(U, P, C, room, oneAtATime, limits, ids, writers) ==
    /\ users = U /\ posts = P /\ comments = C
    /\ run = [cap |-> Cardinality(U) + Cardinality(P) + Cardinality(C) + room,
              seq |-> oneAtATime, limits |-> limits, ids |-> ids,
              writers |-> writers]
    /\ lastAck = 0
    /\ raced = {}
    /\ cache = [k \in Keys |-> NoEntry]
    /\ reval = IdleReval
    /\ paths = {}
    /\ pc = [p \in Procs |-> "idle"]
    /\ call = [p \in Procs |-> NoCall]
    /\ loc = [p \in Procs |-> Locals0]
    /\ ret = [p \in Procs |-> None]
    /\ acked = {}

Init == InitOn({}, {}, {}, MaxRows, FALSE, Limits, UserIds, Procs)

\* No answer is waiting to be collected.  Return touches nothing but the
\* caller's own frame, so it commutes with every step of the others: taking
\* it first loses no interleaving of the store and cache steps.
Settled == \A q \in Procs : pc[q] # "done"

\* A caller with no action running may call one
Quiet ==
    /\ \A q \in Procs : pc[q] = "idle"
    /\ reval = IdleReval
\* (in a run of calls made one at a time, which caller makes them is of no
\* consequence: caller 1 makes them all)
Callable(p) == Settled /\ pc[p] = "idle" /\ (run.seq => Quiet /\ p = 1)

\* The await at which a running action stands completes
At(p, where) == Settled /\ pc[p] = where

\* Room for one more insert, counting the create actions already on their way
\* to theirs
Room ==
    Cardinality(users) + Cardinality(posts) + Cardinality(comments)
        + Cardinality({q \in Procs : pc[q] \in {"findPost", "findAuthor", "create"}})
      < run.cap

\* The action ends: it returns r or throws it to the caller
Finish(p, r, l) ==
    /\ pc' = [pc EXCEPT ![p] = "done"]
    /\ ret' = [ret EXCEPT ![p] = r]
    /\ loc' = [loc EXCEPT ![p] = l]

\* The action suspends at its next await
Await(p, at, l) ==
    /\ pc' = [pc EXCEPT ![p] = at]
    /\ loc' = [loc EXCEPT ![p] = l]
    /\ UNCHANGED ret

\* ------------------------------------------------------- catch blocks
CatchGetUsers(e) == Thrown(Err("Failed to fetch users"))
CatchGetPosts(e) == Thrown(Err("Failed to fetch posts"))
CatchGetUserById(e) == Thrown(e)
\* A catch block that does not single out the unique-constraint code
CatchCreateUserUnclassified(e) == Thrown(Err("Failed to create user"))

CatchCreateUser(e) ==
    IF e.code = "P2002"
    THEN Thrown(Err("A user with this email already exists"))
    ELSE Thrown(Err("Failed to create user"))
CatchCreatePost(e) == Thrown(e)
CatchCreateComment(e) == Thrown(e)

CatchRead(op, e) ==
    IF op = "getUsers" THEN CatchGetUsers(e)
    ELSE IF op = "getPosts" THEN CatchGetPosts(e)
    ELSE CatchGetUserById(e)

\* What a read does with the query's result v
Respond(op, v) ==
    IF op = "getUserById" /\ v = Null
    THEN CatchGetUserById(Err("User not found"))
    ELSE Ok(v)

KeyOf(c) ==
    IF c.op = "getUsers" THEN UsersKey
    ELSE IF c.op = "getPosts" THEN PostsKey(c.limit)
    ELSE UserKey(c.id)

\* -------------------------------------------------------------- reads
\* A read is called: the cached query is looked up.  A servable entry is
\* returned at once (a stale one also starts a background revalidation);
\* on a miss the query goes to the store.
ReadCall(p, c) ==
    LET k == KeyOf(c)
        l0 == [Locals0 EXCEPT !.seen = acked, !.ext = {"cache"}] IN
    /\ Callable(p) /\ (p \in run.writers => run.writers = Procs)
    /\ call' = [call EXCEPT ![p] = c]
    /\ IF cache[k].stage = "none"
       THEN /\ Await(p, "fetch", l0)
            /\ UNCHANGED reval
       ELSE /\ Finish(p, Respond(c.op, cache[k].val),
                      [l0 EXCEPT !.hit = TRUE, !.val = cache[k].val])
            /\ reval' = IF cache[k].stage = "stale" /\ reval = IdleReval
                        THEN [st |-> "pending", key |-> k]
                        ELSE reval
    /\ UNCHANGED <<users, posts, comments, cache, paths, acked, raced, lastAck, run>>

GetUsers(p) == ReadCall(p, [op |-> "getUsers"])
GetPosts(p) ==
    \E limit \in run.limits : ReadCall(p, [op |-> "getPosts", limit |-> limit])
GetUserById(p) ==
    \E id \in run.ids \ {0} : ReadCall(p, [op |-> "getUserById", id |-> id])

\* The store answers the query of a read that missed the cache, or fails
ReadFetch(p) ==
    /\ At(p, "fetch")
    /\ \/ Await(p, "fill",
                [loc[p] EXCEPT !.val = RunQuery(KeyOf(call[p]), users, posts, comments),
                               !.ext = @ \cup {"store.read"}])
       \/ Finish(p, CatchRead(call[p].op, StoreDown),
                 [loc[p] EXCEPT !.fault = StoreDown, !.ext = @ \cup {"store.read"}])
    /\ UNCHANGED <<users, posts, comments, cache, reval, paths, call, acked, raced, lastAck, run>>

\* The result is put in the cache and handed to the read
ReadFill(p) ==
    LET k == KeyOf(call[p]) IN
    /\ At(p, "fill")
    /\ cache' = [cache EXCEPT ![k] = NewEntry(k, loc[p].val)]
    /\ Finish(p, Respond(call[p].op, loc[p].val), loc[p])
    /\ raced' = raced \cup LateFor(k, loc[p].val)
    /\ UNCHANGED <<users, posts, comments, reval, paths, call, acked, lastAck, run>>

\* Background revalidation of a stale entry: query the store (or fail) ...
RevalFetch ==
    /\ Settled /\ reval.st = "pending"
    /\ \/ reval' = [st |-> "fetched", key |-> reval.key,
                    val |-> RunQuery(reval.key, users, posts, comments)]
       \/ reval' = IdleReval
    /\ UNCHANGED <<users, posts, comments, cache, paths, pc, call, loc, ret, acked, raced, lastAck, run>>

\* ... and replace the entry
RevalFill ==
    /\ Settled /\ reval.st = "fetched"
    /\ cache' = [cache EXCEPT ![reval.key] = NewEntry(reval.key, reval.val)]
    /\ reval' = IdleReval
    /\ raced' = raced \cup LateFor(reval.key, reval.val)
    /\ UNCHANGED <<users, posts, comments, paths, pc, call, loc, ret, acked, lastAck, run>>

\* Time passes: a fresh entry turns stale (or is dropped when the query has
\* no swr window), a stale one is dropped
Expire(k) ==
    /\ Settled /\ cache[k].stage # "none"
    /\ cache' = [cache EXCEPT ![k] =
                   IF cache[k].stage = "fresh" /\ Swr(k) > 0
                   THEN [cache[k] EXCEPT !.stage = "stale"]
                   ELSE NoEntry]
    /\ UNCHANGED <<users, posts, comments, reval, paths, pc, call, loc, ret, acked, raced, lastAck, run>>

\* ---------------------------------------------------------- createUser
\* if (!email) throw ...
CreateUserValid(email) == email # ""

NewUser(email) ==
    [id |-> Cardinality(users) + 1, email |-> email,
     createdAt |-> Cardinality(users) + 1]

\* The unique index on User.email
EmailTaken(email) == \E u \in users : u.email = email

CreateUser(p) ==
    \E email \in Emails :
        /\ Callable(p) /\ p \in run.writers
        /\ Room
        /\ call' = [call EXCEPT ![p] = [op |-> "createUser", email |-> email]]
        /\ IF CreateUserValid(email)
           THEN Await(p, "create", Locals0)
           ELSE Finish(p, Thrown(Err("Email is required")),
                       Locals0)
        /\ UNCHANGED <<users, posts, comments, cache, reval, paths, acked, raced, run>>
        /\ lastAck' = 0

\* prisma.user.create, then revalidatePath("/") and return; a throw of
\* either lands in the catch block
CreateUserInsert(p) ==
    LET l == [loc[p] EXCEPT !.ext = @ \cup {"store.write"}]
        u == NewUser(call[p].email) IN
    /\ At(p, "create") /\ call[p].op = "createUser"
    /\ \/ /\ Finish(p, CatchCreateUser(StoreDown), [l EXCEPT !.fault = StoreDown])
          /\ UNCHANGED <<users, paths>>
       \/ /\ EmailTaken(call[p].email)
          /\ Finish(p, CatchCreateUser(UniqueViolation),
                    [l EXCEPT !.fault = UniqueViolation])
          /\ UNCHANGED <<users, paths>>
       \/ /\ ~EmailTaken(call[p].email)
          /\ users' = users \cup {u}
          /\ paths' = paths \cup {"/"}
          /\ Finish(p, Ok(u), [l EXCEPT !.ins = u, !.ext = @ \cup {"revalidatePath"}])
       \/ /\ ~EmailTaken(call[p].email)
          /\ users' = users \cup {u}
          /\ Finish(p, CatchCreateUser(RevalidateFailed),
                    [l EXCEPT !.ins = u, !.ext = @ \cup {"revalidatePath"}])
          /\ UNCHANGED paths
    /\ UNCHANGED <<posts, comments, cache, reval, call, acked, raced, lastAck, run>>

\* ---------------------------------------------------------- createPost
\* if (!title || !authorId) throw ...
CreatePostValid(title, authorId) == title # "" /\ authorId # 0

NewPost(title, authorId) ==
    [id |-> Cardinality(posts) + 1, title |-> title, authorId |-> authorId,
     createdAt |-> Cardinality(posts) + 1]

CreatePost(p) ==
    \E title \in Titles, authorId \in run.ids :
        /\ Callable(p) /\ p \in run.writers
        /\ Room
        /\ call' = [call EXCEPT ![p] =
                      [op |-> "createPost", title |-> title, authorId |-> authorId]]
        /\ IF CreatePostValid(title, authorId)
           THEN Await(p, "findAuthor", Locals0)
           ELSE Finish(p, Thrown(Err("Title and author are required")),
                       Locals0)
        /\ UNCHANGED <<users, posts, comments, cache, reval, paths, acked, raced, run>>
        /\ lastAck' = 0

\* createPost without its author check
CreatePostCheckSkipped(authorExists) == "ok"

\* What createPost does once the author lookup has answered
CreatePostCheck(authorExists) ==
    IF authorExists = Null THEN "Author not found" ELSE "ok"

\* prisma.user.findUnique({ where: { id: authorId } }) and the check on it
CreatePostFindAuthor(p) ==
    LET l == [loc[p] EXCEPT !.ext = @ \cup {"store.read"}]
        a == FindUnique(users, call[p].authorId) IN
    /\ At(p, "findAuthor") /\ call[p].op = "createPost"
    /\ \/ Finish(p, CatchCreatePost(StoreDown), [l EXCEPT !.fault = StoreDown])
       \/ IF CreatePostCheck(a) = "ok"
          THEN Await(p, "create", [l EXCEPT !.authorExists = a])
          ELSE Finish(p, CatchCreatePost(Err(CreatePostCheck(a))),
                      [l EXCEPT !.authorExists = a])
    /\ UNCHANGED <<users, posts, comments, cache, reval, paths, call, acked, raced, lastAck, run>>

\* prisma.post.create, then revalidatePath("/") and return
CreatePostInsert(p) ==
    LET l == [loc[p] EXCEPT !.ext = @ \cup {"store.write"}]
        r == NewPost(call[p].title, call[p].authorId)
        out == [post |-> r, author |-> FindUnique(users, call[p].authorId)] IN
    /\ At(p, "create") /\ call[p].op = "createPost"
    /\ \/ /\ Finish(p, CatchCreatePost(StoreDown), [l EXCEPT !.fault = StoreDown])
          /\ UNCHANGED <<posts, paths>>
       \/ /\ posts' = posts \cup {r}
          /\ paths' = paths \cup {"/"}
          /\ Finish(p, Ok(out), [l EXCEPT !.ins = r, !.ext = @ \cup {"revalidatePath"}])
       \/ /\ posts' = posts \cup {r}
          /\ Finish(p, CatchCreatePost(RevalidateFailed),
                    [l EXCEPT !.ins = r, !.ext = @ \cup {"revalidatePath"}])
          /\ UNCHANGED paths
    /\ UNCHANGED <<users, comments, cache, reval, call, acked, raced, lastAck, run>>

\* ------------------------------------------------------- createComment
\* if (!content || !postId || !authorId) throw ...
\* A validation that lets an empty authorId through
CreateCommentValidNoAuthor(content, postId, authorId) ==
    content # "" /\ postId # 0

CreateCommentValid(content, postId, authorId) ==
    content # "" /\ postId # 0 /\ authorId # 0

NewComment(content, postId, authorId) ==
    [id |-> Cardinality(comments) + 1, content |-> content, postId |-> postId,
     authorId |-> authorId, createdAt |-> Cardinality(comments) + 1]

CreateComment(p) ==
    \E content \in Contents, postId \in PostIds, authorId \in run.ids :
        /\ Callable(p) /\ p \in run.writers
        /\ Room
        /\ call' = [call EXCEPT ![p] =
                      [op |-> "createComment", content |-> content,
                       postId |-> postId, authorId |-> authorId]]
        /\ IF CreateCommentValid(content, postId, authorId)
           THEN Await(p, "findPost", Locals0)
           ELSE Finish(p, Thrown(Err("Content, post, and author are required")),
                       Locals0)
        /\ UNCHANGED <<users, posts, comments, cache, reval, paths, acked, raced, run>>
        /\ lastAck' = 0

\* prisma.post.findUnique({ where: { id: postId } })
CreateCommentFindPost(p) ==
    LET l == [loc[p] EXCEPT !.ext = @ \cup {"store.read"}] IN
    /\ At(p, "findPost")
    /\ \/ Finish(p, CatchCreateComment(StoreDown), [l EXCEPT !.fault = StoreDown])
       \/ Await(p, "findAuthor",
                [l EXCEPT !.postExists = FindUnique(posts, call[p].postId)])
    /\ UNCHANGED <<users, posts, comments, cache, reval, paths, call, acked, raced, lastAck, run>>

\* createComment testing the author before the post
CreateCommentCheckAuthorFirst(postExists, authorExists) ==
    IF authorExists = Null THEN "Author not found"
    ELSE IF postExists = Null THEN "Post not found"
    ELSE "ok"

\* createComment testing the post only
CreateCommentCheckPostOnly(postExists, authorExists) ==
    IF postExists = Null THEN "Post not found" ELSE "ok"

\* What createComment does once both lookups have answered
CreateCommentCheck(postExists, authorExists) ==
    IF postExists = Null THEN "Post not found"
    ELSE IF authorExists = Null THEN "Author not found"
    ELSE "ok"

\* prisma.user.findUnique({ where: { id: authorId } }) and the two checks
CreateCommentFindAuthor(p) ==
    LET l == [loc[p] EXCEPT !.ext = @ \cup {"store.read"}]
        a == FindUnique(users, call[p].authorId)
        chk == CreateCommentCheck(loc[p].postExists, a) IN
    /\ At(p, "findAuthor") /\ call[p].op = "createComment"
    /\ \/ Finish(p, CatchCreateComment(StoreDown), [l EXCEPT !.fault = StoreDown])
       \/ IF chk = "ok"
          THEN Await(p, "create", [l EXCEPT !.authorExists = a])
          ELSE Finish(p, CatchCreateComment(Err(chk)), [l EXCEPT !.authorExists = a])
    /\ UNCHANGED <<users, posts, comments, cache, reval, paths, call, acked, raced, lastAck, run>>

\* prisma.comment.create, then revalidatePath("/"), then the invalidation
\* request is sent
CreateCommentInsert(p) ==
    LET l == [loc[p] EXCEPT !.ext = @ \cup {"store.write"}]
        r == NewComment(call[p].content, call[p].postId, call[p].authorId) IN
    /\ At(p, "create") /\ call[p].op = "createComment"
    /\ \/ /\ Finish(p, CatchCreateComment(StoreDown), [l EXCEPT !.fault = StoreDown])
          /\ UNCHANGED <<comments, paths>>
       \/ /\ comments' = comments \cup {r}
          /\ paths' = paths \cup {"/"}
          /\ Await(p, "invalidate",
                   [l EXCEPT !.ins = r, !.ext = @ \cup {"revalidatePath"}])
       \/ /\ comments' = comments \cup {r}
          /\ Finish(p, CatchCreateComment(RevalidateFailed),
                    [l EXCEPT !.ins = r, !.ext = @ \cup {"revalidatePath"}])
          /\ UNCHANGED paths
    /\ UNCHANGED <<users, posts, cache, reval, call, acked, raced, lastAck, run>>

\* tags: ["posts_list", `user_${authorId}`]
\* The tags without the author's
CommentTagsPostsOnly(authorId) == {<<"posts_list", 0>>}

CommentTags(authorId) == {<<"posts_list", 0>>, <<"user", authorId>>}

\* prisma.$accelerate.invalidate, then return the comment
CreateCommentInvalidate(p) ==
    LET l == [loc[p] EXCEPT !.ext = @ \cup {"invalidate"}]
        r == loc[p].ins
        out == [comment |-> r, author |-> FindUnique(users, r.authorId),
                post |-> FindUnique(posts, r.postId)] IN
    /\ At(p, "invalidate")
    /\ \/ /\ cache' = Invalidate(cache, CommentTags(call[p].authorId))
          /\ acked' = acked \cup {r.id}
          /\ lastAck' = r.id
          /\ Finish(p, Ok(out), l)
       \/ /\ Finish(p, CatchCreateComment(InvalidateFailed), l)
          /\ UNCHANGED <<cache, acked, lastAck>>
    /\ UNCHANGED <<users, posts, comments, reval, paths, call, raced, run>>

\* The caller has its answer; it may call again
Return(p) ==
    /\ pc[p] = "done"
    /\ pc' = [pc EXCEPT ![p] = "idle"]
    /\ call' = [call EXCEPT ![p] = NoCall]
    /\ loc' = [loc EXCEPT ![p] = Locals0]
    /\ ret' = [ret EXCEPT ![p] = None]
    /\ UNCHANGED <<users, posts, comments, cache, reval, paths, acked, raced, lastAck, run>>

\* A caller calls one of the six actions
Call(p) ==
    \/ GetUsers(p) \/ GetPosts(p) \/ GetUserById(p)
    \/ CreateUser(p) \/ CreatePost(p) \/ CreateComment(p)

\* An await of a running action completes
Resume(p) ==
    \/ ReadFetch(p) \/ ReadFill(p)
    \/ CreateUserInsert(p)
    \/ CreatePostFindAuthor(p) \/ CreatePostInsert(p)
    \/ CreateCommentFindPost(p) \/ CreateCommentFindAuthor(p)
    \/ CreateCommentInsert(p) \/ CreateCommentInvalidate(p)

CacheStep == RevalFetch \/ RevalFill \/ \E k \in Keys : Expire(k)

Next ==
    \/ \E p \in Procs : Call(p) \/ Resume(p) \/ Return(p)
    \/ CacheStep

\* Any interleaving of the six actions of all callers, from the empty store
Spec == Init /\ [][Next]_vars

\* The create actions alone (the reads change nothing but the cache, which
\* no create action reads)
WriteCall(p) == CreateUser(p) \/ CreatePost(p) \/ CreateComment(p)
WriteResume(p) ==
    \/ CreateUserInsert(p)
    \/ CreatePostFindAuthor(p) \/ CreatePostInsert(p)
    \/ CreateCommentFindPost(p) \/ CreateCommentFindAuthor(p)
    \/ CreateCommentInsert(p) \/ CreateCommentInvalidate(p)
NextWrite == \E p \in Procs : WriteCall(p) \/ WriteResume(p) \/ Return(p)
SpecWrite == Init /\ [][NextWrite]_vars

\* getPosts, getUserById, createPost and createComment called one at a time
\* (none while another action or a background revalidation is running), on
\* a store that already holds a user, two posts and CommentTake - 1 comments
SeqCall(p) == GetPosts(p) \/ GetUserById(p) \/ CreatePost(p) \/ CreateComment(p)
SeqResume(p) ==
    \/ ReadFetch(p) \/ ReadFill(p)
    \/ CreatePostFindAuthor(p) \/ CreatePostInsert(p)
    \/ CreateCommentFindPost(p) \/ CreateCommentFindAuthor(p)
    \/ CreateCommentInsert(p) \/ CreateCommentInvalidate(p)
    \/ Return(p)
NextSeq == (\E p \in Procs : SeqCall(p) \/ SeqResume(p)) \/ CacheStep
InitSeq ==
    InitOn(SeedUsers, SeedPosts(2), SeedComments(CommentTake - 1), MaxNew, TRUE,
           Limits, UserIds, Procs)
SpecSeq == InitSeq /\ [][NextSeq]_vars

\* createComment called by caller 1, racing the getPosts and
\* getUserById(authorId) calls of the other callers, on a store that holds
\* the user and a post
RaceCall(p) == GetPosts(p) \/ GetUserById(p) \/ CreateComment(p)
RaceResume(p) ==
    \/ ReadFetch(p) \/ ReadFill(p)
    \/ CreateCommentFindPost(p) \/ CreateCommentFindAuthor(p)
    \/ CreateCommentInsert(p) \/ CreateCommentInvalidate(p)
    \/ Return(p)
NextRace == (\E p \in Procs : RaceCall(p) \/ RaceResume(p)) \/ CacheStep
InitRace ==
    InitOn(SeedUsers, SeedPosts(1), SeedComments(0), MaxNew - 1, FALSE,
           {DefaultLimit}, {0, 1}, {1})
SpecRace == InitRace /\ [][NextRace]_vars

\* ============================================================== claims
IsDone(p, op) == pc[p] = "done" /\ call[p].op = op
Ids(s) == {s[i].id : i \in 1..Len(s)}
Generic(e) == e.code = "" /\ e.message \in
    {"Failed to fetch users", "Failed to fetch posts", "Failed to create user",
     "Failed to fetch user", "Failed to create post", "Failed to create comment"}

\* C1: an unclassified store failure raised during an action reaches the
\* caller as a generic failure, never as the store's own error.
C1_StoreFailureIsGeneric ==
    \A p \in Procs :
        (pc[p] = "done" /\ loc[p].fault = StoreDown)
            => (ret[p].kind = "error" /\ ret[p].err # StoreDown /\ Generic(ret[p].err))

\* C2: once both lookups of a valid createComment have answered, a found post
\* with a missing author gives "Author not found", a missing post gives
\* "Post not found" (also when the author is missing too), "Post not found"
\* is given only for a post the lookup did not find, and nothing is inserted.
C2_CommentNotFound ==
    \A p \in Procs :
        (IsDone(p, "createComment") /\ loc[p].authorExists # Unset) =>
            LET postFound == loc[p].postExists # Null
                authorFound == loc[p].authorExists # Null IN
            /\ authorFound = (\E u \in users : u.id = call[p].authorId)
            /\ postFound => \E q \in posts : q.id = call[p].postId
            /\ (postFound /\ ~authorFound)
                 => (ret[p] = Thrown(Err("Author not found")) /\ loc[p].ins = Null)
            /\ ~postFound
                 => (ret[p] = Thrown(Err("Post not found")) /\ loc[p].ins = Null)
            /\ ret[p] = Thrown(Err("Post not found")) => ~postFound
C2_Witness ==
    \E p \in Procs :
        /\ IsDone(p, "createComment")
        /\ loc[p].postExists \in posts /\ loc[p].authorExists = Null
        /\ ret[p] = Thrown(Err("Author not found"))

\* C3: a valid createPost whose author lookup finds no user fails with
\* "Author not found", inserts no post and sends no regeneration signal.
C3_PostAuthorNotFound ==
    \A p \in Procs :
        (IsDone(p, "createPost") /\ loc[p].authorExists = Null) =>
            /\ ~\E u \in users : u.id = call[p].authorId
            /\ ret[p] = Thrown(Err("Author not found"))
            /\ loc[p].ins = Null
            /\ loc[p].ext \cap {"store.write", "revalidatePath"} = {}
C3_Witness ==
    \E p \in Procs :
        /\ IsDone(p, "createPost") /\ loc[p].authorExists = Null
        /\ users # {} /\ posts # {}

\* C4: no two users share an email, and a createUser whose email another
\* user holds fails with the conflict error (not the generic one) and adds
\* no row, unless the store itself was unreachable.
C4_UniqueEmail ==
    /\ \A u1, u2 \in users : u1.email = u2.email => u1 = u2
    /\ \A p \in Procs :
        (/\ IsDone(p, "createUser") /\ loc[p].fault # StoreDown
         /\ \E u \in users : u.email = call[p].email /\ u # loc[p].ins)
            => /\ ret[p] = Thrown(Err("A user with this email already exists"))
               /\ loc[p].ins = Null
C4_Witness ==
    \E p, q \in Procs :
        /\ IsDone(p, "createUser") /\ loc[p].fault = UniqueViolation
        /\ pc[q] = "create" /\ call[q].op = "createUser"
        /\ call[q].email = call[p].email

\* C5: every post's author is a user, and every comment's post and author
\* are a post and a user.
C5_References ==
    /\ \A q \in posts : \E u \in users : u.id = q.authorId
    /\ \A c \in comments :
        /\ \E q \in posts : q.id = c.postId
        /\ \E u \in users : u.id = c.authorId
C5_Witness ==
    /\ comments # {} /\ posts # {} /\ users # {}
    /\ \E p \in Procs : IsDone(p, "createComment") /\ loc[p].ins \in comments

\* C7: a create action called with an empty required field fails with its
\* validation error before any external call: no store read or insert, no
\* regeneration signal, no invalidation.
C7_ValidationFirst ==
    \A p \in Procs :
        /\ (IsDone(p, "createUser") /\ call[p].email = "")
             => (ret[p] = Thrown(Err("Email is required")) /\ loc[p].ext = {}
                 /\ loc[p].ins = Null)
        /\ (IsDone(p, "createPost") /\ (call[p].title = "" \/ call[p].authorId = 0))
             => (ret[p] = Thrown(Err("Title and author are required"))
                 /\ loc[p].ext = {} /\ loc[p].ins = Null)
        /\ (IsDone(p, "createComment")
              /\ (call[p].content = "" \/ call[p].postId = 0 \/ call[p].authorId = 0))
             => (ret[p] = Thrown(Err("Content, post, and author are required"))
                 /\ loc[p].ext = {} /\ loc[p].ins = Null)
C7_Witness ==
    \E p \in Procs :
        /\ IsDone(p, "createComment")
        /\ call[p].content = "" /\ call[p].postId # 0 /\ call[p].authorId # 0
        /\ ~\E q \in posts : q.id = call[p].postId
        /\ users # {}

\* C9: a create action that reports a failure has inserted no row.
C9_NoRowOnFailure ==
    \A p \in Procs :
        (pc[p] = "done" /\ ret[p].kind = "error"
           /\ call[p].op \in {"createUser", "createPost", "createComment"})
            => loc[p].ins = Null

\* ------------------------------------------------ reads after writes
\* The comment whose creation was the last thing to happen before the reads
LastComment == CHOOSE c \in comments : c.id = lastAck
\* s is ordered newest first
Desc(s) == \A i \in 1..(Len(s) - 1) : s[i].createdAt > s[i + 1].createdAt
\* The n newest rows of S
Newest(S, n) == {r \in S : Cardinality({x \in S : x.createdAt > r.createdAt}) < n}
\* result v of getPosts lists comment c under its post
ListsComment(v, c) ==
    \E i \in 1..Len(v) : v[i].id = c.postId /\ c.id \in Ids(v[i].comments)

ExactView(p) ==
    LET id == call[p].id
        v == ret[p].val
        mine == {q \in posts : q.authorId = id}
        said == {c \in comments : c.authorId = id} IN
    IF ~\E u \in users : u.id = id
    THEN ret[p] = Thrown(Err("User not found"))
    ELSE /\ ret[p].kind = "ok"
         /\ v.id = id
         /\ Range(v.posts) = mine /\ Desc(v.posts)
         /\ Range(v.comments) = Newest(said, CommentTake) /\ Desc(v.comments)

\* C8 (as stated): getUserById fails with "User not found" when no user has
\* the id; otherwise it returns the user with all of its posts newest first
\* and its comments newest first, at most 10 of them.
C8_UserView ==
    \A p \in Procs :
        (IsDone(p, "getUserById") /\ loc[p].fault = Null) => ExactView(p)

\* C8 (amended): ... when the store answers the call.  An answer served from
\* the cache is the view of an earlier store state: ordered and capped the
\* same way, but without the rows inserted since.
C8_UserViewAsOf ==
    \A p \in Procs :
        (IsDone(p, "getUserById") /\ loc[p].fault = Null) =>
            LET id == call[p].id
                v == ret[p].val
                mine == {q \in posts : q.authorId = id}
                said == {c \in comments : c.authorId = id} IN
            /\ ~loc[p].hit => ExactView(p)
            /\ (~\E u \in users : u.id = id) => ret[p] = Thrown(Err("User not found"))
            /\ ret[p].kind = "ok" =>
                /\ v.id = id /\ \E u \in users : u.id = id
                /\ Desc(v.posts) /\ Desc(v.comments)
                /\ Len(v.comments) <= CommentTake
                /\ \E np \in 0..Cardinality(posts), nc \in 0..Cardinality(comments) :
                    /\ Range(v.posts) = {q \in mine : q.id <= np}
                    /\ Range(v.comments)
                         = Newest({c \in said : c.id <= nc}, CommentTake)
C8_Witness ==
    \E p \in Procs :
        /\ IsDone(p, "getUserById") /\ ret[p].kind = "ok"
        /\ Cardinality({c \in comments : c.authorId = call[p].id}) > CommentTake
        /\ Len(ret[p].val.comments) = CommentTake
        /\ Len(ret[p].val.posts) > 1

\* ------------------------------------------------- reads racing writes
\* C10 (as stated): once createComment has returned, no getPosts or
\* getUserById(authorId) call that starts afterwards is served a cached
\* result computed before the comment was inserted.
C10_NoStaleAfterReturn ==
    \A p \in Procs :
        (pc[p] = "done" /\ loc[p].hit) =>
            \A c \in comments :
                c.id \in loc[p].seen => ~Predates(KeyOf(call[p]), loc[p].val, c)

\* C10 (amended): ... unless a read or a background revalidation that
\* queried the store before the insert put its result in the cache after
\* the invalidation.
C10_NoStaleUnlessRaced ==
    \A p \in Procs :
        (pc[p] = "done" /\ loc[p].hit) =>
            \A c \in comments :
                c.id \in loc[p].seen \ raced
                    => ~Predates(KeyOf(call[p]), loc[p].val, c)
C10_Witness ==
    \E p \in Procs :
        /\ pc[p] = "done" /\ loc[p].hit
        /\ loc[p].seen \ raced # {}
        /\ call[p].op = "getPosts"
        /\ ListsComment(loc[p].val, CHOOSE c \in comments : c.id \in loc[p].seen)

====
